---- MODULE Spec2Model ----
(***************************************************************************)
(* bianco-events (src/index.next.js): add / once / remove of DOM event     *)
(* listeners, with the WeakMap side table `listeners` that tracks, per     *)
(* node and per event name, the callbacks handed to addEventListener.      *)
(*                                                                         *)
(* A string is a sequence of one-character strings.  A callback is an      *)
(* opaque identity; Undefined is the JavaScript value undefined.  An       *)
(* options object lives in the caller's heap (optObjs) and is passed by    *)
(* reference.                                                              *)
(***************************************************************************)
EXTENDS Integers, Sequences, FiniteSets, TLC

VARIABLES listeners, optObjs, registered, last, onceWatch

vars == <<listeners, optObjs, registered, last, onceWatch>>

\* ---------------------------------------------------------------- bounds
MaxTracked == 3    \* most tracked entries (all nodes together) a call may reach

\* ---------------------------------------------------------------- values
Undefined == "undefined"
Nodes == {"n1", "n2"}
Callers == {"n1"}
Callbacks == {"cb1", "cb2"}
OptRefs == {"o1"}
Letters == {"a", "b"}
Whitespace == {" "}
Chars == Letters \cup Whitespace

\* The caller's strings.  One event name:
EvLists == {<<"a">>}
\* one name, two names, the same name twice:
EvListsFan == {<<"a">>, <<"b">>, <<"a", " ", "b">>, <<"a", " ", "a">>}

\* The values an options object of the caller starts with.
\* Booleans of the program are the strings "true" and "false", so that a
\* property can also be Undefined.
OptionValues ==
  {[capture |-> "true", once |-> Undefined],
   [capture |-> "false", once |-> "false"]}

\* What reading a property of no options object gives the platform.
NoOptions == [capture |-> Undefined, once |-> Undefined]

\* ---------------------------------------------------------------- helpers
\* String.prototype.split(/\s/): cut at every single whitespace character.
RECURSIVE split(_)
split(list) ==
  IF \E i \in 1..Len(list) : list[i] \in Whitespace
  THEN LET i == CHOOSE j \in 1..Len(list) :
                  /\ list[j] \in Whitespace
                  /\ \A k \in 1..(j - 1) : list[k] \notin Whitespace
       IN <<SubSeq(list, 1, i - 1)>> \o split(SubSeq(list, i + 1, Len(list)))
  ELSE <<list>>

isAdd(methodName) == methodName = "addEventListener"

\* Mutant: lastIndexOf in place of indexOf.
IndexOfLast(arr, x) ==
  IF \E i \in 1..Len(arr) : arr[i] = x
  THEN (CHOOSE i \in 1..Len(arr) :
          arr[i] = x /\ \A k \in (i + 1)..Len(arr) : arr[k] # x) - 1
  ELSE -1

\* Array.prototype.indexOf: zero-based index of the first element identical
\* to x, -1 when there is none.
IndexOf(arr, x) ==
  IF \E i \in 1..Len(arr) : arr[i] = x
  THEN (CHOOSE i \in 1..Len(arr) :
          arr[i] = x /\ \A k \in 1..(i - 1) : arr[k] # x) - 1
  ELSE -1

\* Array.prototype.splice(start, deleteCount) on a zero-based start: a
\* negative start counts from the end of the array.
Splice(arr, start, deleteCount) ==
  LET len == Len(arr)
      from == IF start < 0
              THEN (IF len + start > 0 THEN len + start ELSE 0)
              ELSE (IF start < len THEN start ELSE len)
      cnt == IF deleteCount < len - from THEN deleteCount ELSE len - from
  IN SubSeq(arr, 1, from) \o SubSeq(arr, from + cnt + 1, len)

\* obj[key] = value on an object modelled as a function.
SetKey(obj, key, value) ==
  [k \in DOMAIN obj \cup {key} |-> IF k = key THEN value ELSE obj[k]]

\* Object.create(null)
EmptyObject == [k \in {} |-> <<>>]

\* Mutant: the property is not deleted.
DeleteKeyKept(obj, key) == obj

\* Mutant: every property of the object is deleted.
DeleteKeyAll(obj, key) == EmptyObject

\* Reflect.deleteProperty(obj, key)
DeleteKey(obj, key) == [k \in DOMAIN obj \ {key} |-> obj[k]]

\* ---------------------------------------------------------------- platform
\* The event target behind a node: its listener list, one entry per
\* (type, callback, capture), and what a call of its two capabilities does.
NativeCall(reg, call) ==
  LET same(l) == /\ l.type = call.type
                 /\ l.cb = call.cb
                 /\ l.capture = (call.capture = "true")
  IN IF call.cb = Undefined
     THEN reg
     ELSE IF isAdd(call.method)
     THEN IF \E l \in reg : same(l)
          THEN reg
          ELSE reg \cup {[type |-> call.type, cb |-> call.cb,
                          capture |-> (call.capture = "true"),
                          once |-> (call.options.once = "true")]}
     ELSE {l \in reg : ~same(l)}

\* ---------------------------------------------------------------- the code
\* The state a call works on: the side table, the platform's listener
\* lists and the native calls made so far by this call.

\* Mutant: the options are not handed to the platform.
nativeCallsNoOptions(el, eventName, cb, method, options, eventListeners) ==
  IF isAdd(method) \/ cb # Undefined
  THEN <<[method |-> method, el |-> el, type |-> eventName, cb |-> cb,
          capture |-> "false", optRef |-> Undefined,
          options |-> NoOptions]>>
  ELSE [i \in 1..Len(eventListeners) |->
          [method |-> method, el |-> el, type |-> eventName,
           cb |-> eventListeners[i],
           capture |-> Undefined, optRef |-> Undefined,
           options |-> NoOptions]]

\* Mutant: the bulk branch makes no native call.
nativeCallsNoBulk(el, eventName, cb, method, options, eventListeners) ==
  IF isAdd(method) \/ cb # Undefined
  THEN <<[method |-> method, el |-> el, type |-> eventName, cb |-> cb,
          capture |-> "false", optRef |-> options.ref,
          options |-> options.value]>>
  ELSE <<>>

\* el[method](...) of manageListeners: the native calls for one event name.
nativeCalls(el, eventName, cb, method, options, eventListeners) ==
  IF isAdd(method) \/ cb # Undefined
  THEN <<[method |-> method, el |-> el, type |-> eventName, cb |-> cb,
          capture |-> "false", optRef |-> options.ref,
          options |-> options.value]>>
  ELSE [i \in 1..Len(eventListeners) |->
          [method |-> method, el |-> el, type |-> eventName,
           cb |-> eventListeners[i],
           capture |-> Undefined, optRef |-> Undefined,
           options |-> NoOptions]]

\* Mutant: unshift in place of push.
updateListenersUnshift(elListeners, eventName, cb, method, eventListeners) ==
  IF isAdd(method)
  THEN SetKey(elListeners, eventName, <<cb>> \o eventListeners)
  ELSE IF cb # Undefined
  THEN SetKey(elListeners, eventName,
              Splice(eventListeners, IndexOf(eventListeners, cb), 1))
  ELSE DeleteKey(elListeners, eventName)

\* Mutant: a callback already tracked is not pushed again.
updateListenersUnique(elListeners, eventName, cb, method, eventListeners) ==
  IF isAdd(method)
  THEN SetKey(elListeners, eventName,
              IF IndexOf(eventListeners, cb) >= 0
              THEN eventListeners ELSE Append(eventListeners, cb))
  ELSE IF cb # Undefined
  THEN SetKey(elListeners, eventName,
              Splice(eventListeners, IndexOf(eventListeners, cb), 1))
  ELSE DeleteKey(elListeners, eventName)

\* The bookkeeping of manageListeners: elListeners after one event name.
updateListeners(elListeners, eventName, cb, method, eventListeners) ==
  IF isAdd(method)
  THEN SetKey(elListeners, eventName, Append(eventListeners, cb))
  ELSE IF cb # Undefined
  THEN SetKey(elListeners, eventName,
              Splice(eventListeners, IndexOf(eventListeners, cb), 1))
  ELSE DeleteKey(elListeners, eventName)

\* Mutant: on add the options object is tracked in place of the callback.
manageListenersOptions(st, el, eventName, cb, method, options) ==
  LET elListeners == st.listeners[el]
      eventListeners == IF eventName \in DOMAIN elListeners
                        THEN elListeners[eventName]
                        ELSE <<>>
      withKey == SetKey(elListeners, eventName, eventListeners)
      native == nativeCalls(el, eventName, cb, method, options, eventListeners)
      G[i \in 0..Len(native)] ==
        IF i = 0 THEN st.registered[el] ELSE NativeCall(G[i - 1], native[i])
  IN [listeners |->
        [st.listeners EXCEPT
           ![el] = updateListeners(withKey, eventName,
                                   IF isAdd(method) THEN options.ref ELSE cb,
                                   method, eventListeners)],
      registered |-> [st.registered EXCEPT ![el] = G[Len(native)]],
      calls |-> st.calls \o native]

\* manageListeners(el, eventName, cb, method, options)
manageListeners(st, el, eventName, cb, method, options) ==
  LET elListeners == st.listeners[el]
      eventListeners == IF eventName \in DOMAIN elListeners
                        THEN elListeners[eventName]
                        ELSE <<>>
      withKey == SetKey(elListeners, eventName, eventListeners)
      native == nativeCalls(el, eventName, cb, method, options, eventListeners)
      G[i \in 0..Len(native)] ==
        IF i = 0 THEN st.registered[el] ELSE NativeCall(G[i - 1], native[i])
  IN [listeners |->
        [st.listeners EXCEPT
           ![el] = updateListeners(withKey, eventName, cb, method,
                                   eventListeners)],
      registered |-> [st.registered EXCEPT ![el] = G[Len(native)]],
      calls |-> st.calls \o native]

\* Mutant: a node without an entry gets a new side table.
manageEventsNewTable(st, el, evList, cb, method, options) ==
  LET events == split(evList)
      st0 == IF el \in DOMAIN st.listeners
             THEN st
             ELSE [st EXCEPT !.listeners = [n \in {el} |-> EmptyObject]]
      F[i \in 0..Len(events)] ==
        IF i = 0 THEN st0
        ELSE manageListeners(F[i - 1], el, events[i], cb, method, options)
  IN F[Len(events)]

\* manageEvents(el, evList, cb, method, options)
manageEvents(st, el, evList, cb, method, options) ==
  LET events == split(evList)
      st0 == IF el \in DOMAIN st.listeners
             THEN st
             ELSE [st EXCEPT !.listeners = SetKey(st.listeners, el, EmptyObject)]
      F[i \in 0..Len(events)] ==
        IF i = 0 THEN st0
        ELSE manageListeners(F[i - 1], el, events[i], cb, method, options)
  IN F[Len(events)]

\* Mutant: the callback is pushed before the native call is made.
manageListenersThrowLate(st, el, eventName, cb, method, options) ==
  LET elListeners == st.listeners[el]
      eventListeners == IF eventName \in DOMAIN elListeners
                        THEN elListeners[eventName]
                        ELSE <<>>
      withKey == SetKey(elListeners, eventName, eventListeners)
      native == nativeCalls(el, eventName, cb, method, options, eventListeners)
  IN [listeners |->
        [st.listeners EXCEPT
           ![el] = updateListeners(withKey, eventName, cb, method,
                                   eventListeners)],
      registered |-> st.registered,
      calls |-> st.calls \o SubSeq(native, 1, 1)]

\* manageListeners when its first native call raises: the lookup has made
\* the key, the call is made and its failure ends the function.
manageListenersThrow(st, el, eventName, cb, method, options) ==
  LET elListeners == st.listeners[el]
      eventListeners == IF eventName \in DOMAIN elListeners
                        THEN elListeners[eventName]
                        ELSE <<>>
      withKey == SetKey(elListeners, eventName, eventListeners)
      native == nativeCalls(el, eventName, cb, method, options, eventListeners)
  IN [listeners |-> [st.listeners EXCEPT ![el] = withKey],
      registered |-> st.registered,
      calls |-> st.calls \o SubSeq(native, 1, 1)]

\* manageEvents when the native call for the k-th event name raises: the
\* failure leaves forEach and the names after it are not processed.
manageEventsThrow(st, el, evList, cb, method, options, k) ==
  LET events == split(evList)
      st0 == IF el \in DOMAIN st.listeners
             THEN st
             ELSE [st EXCEPT !.listeners = SetKey(st.listeners, el, EmptyObject)]
      F[i \in 0..(k - 1)] ==
        IF i = 0 THEN st0
        ELSE manageListeners(F[i - 1], el, events[i], cb, method, options)
  IN manageListenersThrow(F[k - 1], el, events[k], cb, method, options)

\* The number of callbacks tracked, over all nodes and event names.
RECURSIVE SumLen(_, _)
SumLen(obj, keys) ==
  IF keys = {} THEN 0
  ELSE LET k == CHOOSE x \in keys : TRUE
       IN Len(obj[k]) + SumLen(obj, keys \ {k})

RECURSIVE Tracked(_, _)
Tracked(map, nodes) ==
  IF nodes = {} THEN 0
  ELSE LET n == CHOOSE x \in nodes : TRUE
       IN SumLen(map[n], DOMAIN map[n]) + Tracked(map, nodes \ {n})

Start == [listeners |-> listeners, registered |-> registered, calls |-> <<>>]

\* ---------------------------------------------------------------- observers
\* The event names of a string as the specification reads it: its maximal
\* runs of characters that are not whitespace.
Runs(s) ==
  {r \in (1..Len(s)) \X (1..Len(s)) :
     /\ r[1] <= r[2]
     /\ \A k \in r[1]..r[2] : s[k] \notin Whitespace
     /\ (r[1] = 1 \/ s[r[1] - 1] \in Whitespace)
     /\ (r[2] = Len(s) \/ s[r[2] + 1] \in Whitespace)}

Names(s) == {SubSeq(s, r[1], r[2]) : r \in Runs(s)}

\* How many times the name E stands in the string s.
Occ(s, E) == Cardinality({r \in Runs(s) : SubSeq(s, r[1], r[2]) = E})

\* The (node, event name, callback) triples a call is about.
Touched(op, el, evList, cb) ==
  {<<el, E, c>> : E \in Names(evList),
                  c \in IF op = "remove" /\ cb = Undefined
                        THEN Callbacks ELSE {cb}}

\* History of the once listeners: a triple is armed from a once call on a
\* callback the platform did not hold for that node and name until the next
\* dispatch of the name, spent from that dispatch on, and forgotten at the
\* next call about the triple.
Watch(op, el, evList, cb) ==
  LET touched == Touched(op, el, evList, cb)
      fresh == {t \in touched :
                  /\ op = "once"
                  /\ ~\E l \in registered[el] : l.type = t[2] /\ l.cb = t[3]}
  IN [armed |-> (onceWatch.armed \ touched) \cup fresh,
      spent |-> onceWatch.spent \ touched]

\* What a call leaves behind: the new state and the record of the call.
Commit(op, el, evList, cb, opt, st, heap, raised) ==
  /\ listeners' = st.listeners
  /\ registered' = st.registered
  /\ optObjs' = heap
  /\ onceWatch' = Watch(op, el, evList, cb)
  /\ last' = [op |-> op, el |-> el, evList |-> evList, cb |-> cb, opt |-> opt,
              calls |-> st.calls, raised |-> raised,
              ret |-> IF raised THEN Undefined ELSE el,
              pre |-> listeners, preReg |-> registered, preOpts |-> optObjs,
              preWatch |-> onceWatch, invoked |-> {}]

\* An options argument: the reference, and the object it stands for at the
\* time of the call.
Deref(heap, opt) ==
  [ref |-> opt, value |-> IF opt = Undefined THEN NoOptions ELSE heap[opt]]

\* add(el, evList, cb, options)
add(el, evList, cb, opt) ==
  LET st == manageEvents(Start, el, evList, cb, "addEventListener",
                         Deref(optObjs, opt))
  IN /\ Tracked(st.listeners, DOMAIN st.listeners) <= MaxTracked
     /\ Commit("add", el, evList, cb, opt, st, optObjs, FALSE)

\* add(el, evList, cb, options) when the platform raises at the native
\* registration for the k-th event name: the failure reaches the caller.
addThrow(el, evList, cb, opt, k) ==
  LET st == manageEventsThrow(Start, el, evList, cb, "addEventListener",
                              Deref(optObjs, opt), k)
  IN /\ k \in 1..Len(split(evList))
     /\ Tracked(st.listeners, DOMAIN st.listeners) <= MaxTracked
     /\ Commit("add", el, evList, cb, opt, st, optObjs, TRUE)

\* Mutant: a fresh {once: true} in place of the caller's object.
AssignOnceFresh(heap, opt) ==
  IF opt = Undefined THEN heap
  ELSE [heap EXCEPT ![opt] = [capture |-> Undefined, once |-> "true"]]

\* Object.assign(options, {once: true}): a TypeError when options is
\* undefined, otherwise the caller's object itself, changed in place.
AssignOnce(heap, opt) ==
  IF opt = Undefined THEN heap
  ELSE [heap EXCEPT ![opt] = [@ EXCEPT !.once = "true"]]

\* once(el, evList, cb, options)
once(el, evList, cb, opt) ==
  IF opt = Undefined
  THEN Commit("once", el, evList, cb, opt, Start, optObjs, TRUE)
  ELSE LET heap == AssignOnce(optObjs, opt)
           st == manageEvents(Start, el, evList, cb, "addEventListener",
                              Deref(heap, opt))
       IN /\ Tracked(st.listeners, DOMAIN st.listeners) <= MaxTracked
          /\ Commit("once", el, evList, cb, opt, st, heap, FALSE)

\* remove(el, evList, cb)
remove(el, evList, cb) ==
  LET st == manageEvents(Start, el, evList, cb, "removeEventListener",
                         Deref(optObjs, Undefined))
  IN Commit("remove", el, evList, cb, Undefined, st, optObjs, FALSE)

\* ---------------------------------------------------------------- actions
Init ==
  /\ listeners = [n \in {} |-> EmptyObject]
  /\ registered = [n \in Nodes |-> {}]
  /\ optObjs \in [OptRefs -> OptionValues]
  /\ last = [op |-> "none", el |-> Undefined, evList |-> <<>>,
             cb |-> Undefined, opt |-> Undefined, calls |-> <<>>,
             raised |-> FALSE, ret |-> Undefined,
             pre |-> [n \in {} |-> EmptyObject],
             preReg |-> [n \in Nodes |-> {}], preOpts |-> optObjs,
             preWatch |-> [armed |-> {}, spent |-> {}], invoked |-> {}]
  /\ onceWatch = [armed |-> {}, spent |-> {}]

\* The platform dispatches an event of one type on a node: every listener of
\* that type is invoked, and one registered with once is removed.
Dispatch(el, type) ==
  LET hit == {l \in registered[el] : l.type = type}
      moved == {t \in onceWatch.armed : t[1] = el /\ t[2] = type}
  IN /\ registered' = [registered EXCEPT ![el] = @ \ {l \in hit : l.once}]
     /\ UNCHANGED <<listeners, optObjs>>
     /\ onceWatch' = [armed |-> onceWatch.armed \ moved,
                      spent |-> onceWatch.spent \cup moved]
     /\ last' = [op |-> "dispatch", el |-> el, evList |-> type,
                 cb |-> Undefined, opt |-> Undefined, calls |-> <<>>,
                 raised |-> FALSE, ret |-> Undefined,
                 pre |-> listeners, preReg |-> registered,
                 preOpts |-> optObjs, preWatch |-> onceWatch,
                 invoked |-> {l.cb : l \in hit}]

Add(evLists) ==
  \E el \in Callers, evList \in evLists, cb \in Callbacks,
     opt \in OptRefs \cup {Undefined} : add(el, evList, cb, opt)

Once(evLists) ==
  \E el \in Callers, evList \in evLists, cb \in Callbacks,
     opt \in OptRefs \cup {Undefined} : once(el, evList, cb, opt)

Remove(evLists) ==
  \E el \in Callers, evList \in evLists, cb \in Callbacks \cup {Undefined} :
     remove(el, evList, cb)

Fire(evLists) ==
  \E el \in Callers, evList \in evLists :
     \E i \in 1..Len(split(evList)) : Dispatch(el, split(evList)[i])

\* Calls on one event name, and the platform's dispatch.
Next == Add(EvLists) \/ Once(EvLists) \/ Remove(EvLists) \/ Fire(EvLists)

Spec == Init /\ [][Next]_vars

\* Calls on sets of event names.
NextFan == Add(EvListsFan) \/ Remove(EvListsFan)

InitFan == Init /\ \A o \in OptRefs : optObjs[o].once = Undefined

SpecFan == InitFan /\ [][NextFan]_vars

\* Calls on sets of event names on a platform whose registration may raise.
AddThrow(evLists) ==
  \E el \in Callers, evList \in evLists, cb \in Callbacks :
     \E k \in 1..Len(split(evList)) : addThrow(el, evList, cb, Undefined, k)

EvListsThrow == {<<"a">>, <<"a", " ", "b">>, <<"a", " ", "a">>}

NextThrow ==
  Add(EvListsThrow) \/ AddThrow(EvListsThrow) \/ Remove(EvListsThrow)

SpecThrow == InitFan /\ [][NextThrow]_vars

\* Calls on one event name on either of two nodes.
AddOn(els) ==
  \E el \in els, evList \in EvLists, cb \in Callbacks :
     add(el, evList, cb, Undefined)

OnceOn(els) ==
  \E el \in els, evList \in EvLists, opt \in OptRefs :
     once(el, evList, "cb1", opt)

RemoveOn(els) ==
  \E el \in els, evList \in EvLists, cb \in Callbacks \cup {Undefined} :
     remove(el, evList, cb)

NextNodes == AddOn(Nodes) \/ OnceOn(Nodes) \/ RemoveOn(Nodes)

SpecNodes == InitFan /\ [][NextNodes]_vars

\* Calls on strings with leading, trailing and consecutive whitespace.
EvListsWs == {<<" ", "a">>, <<"a", " ">>, <<"a", " ", " ", "b">>}

NextWs == Add(EvListsWs) \/ Remove(EvListsWs)

SpecWs == InitFan /\ [][NextWs]_vars

\* ---------------------------------------------------------------- claims
EventNames == UNION {Names(s) : s \in EvLists \cup EvListsFan}

\* The tracked sequence of (el, E) in a side table, empty when there is none.
SeqOf(map, el, E) ==
  IF el \in DOMAIN map /\ E \in DOMAIN map[el] THEN map[el][E] ELSE <<>>

HasKey(map, el, E) == el \in DOMAIN map /\ E \in DOMAIN map[el]

Before(E) == SeqOf(last.pre, last.el, E)
After(E) == SeqOf(listeners, last.el, E)

\* The native calls of the last call that name the event E, in order.
CallsFor(E) == SelectSeq(last.calls, LAMBDA c : c.type = E)

Count(arr, x) == Cardinality({i \in 1..Len(arr) : arr[i] = x})

Has(arr, x) == \E i \in 1..Len(arr) : arr[i] = x

\* arr without its first element identical to x.
RemoveFirst(arr, x) ==
  LET i == CHOOSE k \in 1..Len(arr) :
             arr[k] = x /\ \A m \in 1..(k - 1) : arr[m] # x
  IN [k \in 1..(Len(arr) - 1) |-> IF k < i THEN arr[k] ELSE arr[k + 1]]

\* arr followed by n copies of x.
RECURSIVE Pushed(_, _, _)
Pushed(arr, x, n) == IF n = 0 THEN arr ELSE Pushed(Append(arr, x), x, n - 1)

IsUnregister(c, E, cb) ==
  /\ c.method = "removeEventListener"
  /\ c.el = last.el
  /\ c.type = E
  /\ c.cb = cb

IsRemoveOf == last.op = "remove" /\ last.cb # Undefined
IsBulkRemove == last.op = "remove" /\ last.cb = Undefined

\* C1: remove(N, E, cb) with cb not in the tracked sequence of (N, E) does
\* not raise, leaves that sequence as it was and issues one native
\* unregister call with (E, cb).
C1_RemoveUntrackedKeepsSequence ==
  IsRemoveOf =>
    /\ ~last.raised
    /\ \A E \in Names(last.evList) :
         (Occ(last.evList, E) = 1 /\ ~Has(Before(E), last.cb)) =>
           /\ After(E) = Before(E)
           /\ Len(CallsFor(E)) = 1
           /\ IsUnregister(CallsFor(E)[1], E, last.cb)

\* C2: remove(N, events) without a callback unregisters, for each event name
\* E of the set, every tracked callback of (N, E) once per tracked entry and
\* in registration order, makes no other native call, raises nothing and
\* leaves no key for E; with nothing tracked it makes no native call.
C2_BulkRemove ==
  IsBulkRemove =>
    /\ ~last.raised
    /\ \A E \in Names(last.evList) :
         /\ ~HasKey(listeners, last.el, E)
         /\ Len(CallsFor(E)) = Len(Before(E))
         /\ \A i \in 1..Len(Before(E)) :
              IsUnregister(CallsFor(E)[i], E, Before(E)[i])
    /\ \A i \in 1..Len(last.calls) :
         last.calls[i].type \in Names(last.evList)

C2_Witness ==
  /\ IsBulkRemove
  /\ \E E \in Names(last.evList) :
       /\ Len(Before(E)) >= 2
       /\ Before(E)[1] # Before(E)[2]
       /\ Len(CallsFor(E)) = 2

\* C3: remove(N, E, cb) with cb in the tracked sequence of (N, E) removes
\* the first occurrence of cb and nothing else, keeps the order of the
\* other entries, and issues one native unregister call with (E, cb) for
\* each event name of the set.
C3_RemoveFirstOccurrence ==
  IsRemoveOf =>
    /\ \A E \in Names(last.evList) :
         /\ Len(CallsFor(E)) = Occ(last.evList, E)
         /\ \A i \in 1..Len(CallsFor(E)) :
              IsUnregister(CallsFor(E)[i], E, last.cb)
         /\ (Occ(last.evList, E) = 1 /\ Has(Before(E), last.cb)) =>
              After(E) = RemoveFirst(Before(E), last.cb)
    /\ \A i \in 1..Len(last.calls) :
         last.calls[i].type \in Names(last.evList)

C3_Witness ==
  /\ IsRemoveOf
  /\ \E E \in Names(last.evList) :
       /\ Occ(last.evList, E) = 1
       /\ Len(Before(E)) = 3
       /\ Before(E)[1] = last.cb
       /\ Before(E)[2] # last.cb
       /\ Before(E)[3] = last.cb
       /\ After(E) = <<Before(E)[2], last.cb>>

IsRegister(c, E, cb) ==
  /\ c.method = "addEventListener"
  /\ c.el = last.el
  /\ c.type = E
  /\ c.cb = cb

\* C4: add(N, events, cb, options) invokes the native registration of N once
\* for each event name of the set, with that name, cb and the given
\* options, makes no native call for any other name and no unregister call.
C4_AddRegistersEachName ==
  last.op = "add" =>
    /\ ~last.raised
    /\ \A E \in EventNames : Len(CallsFor(E)) = Occ(last.evList, E)
    /\ \A i \in 1..Len(last.calls) :
         /\ IsRegister(last.calls[i], last.calls[i].type, last.cb)
         /\ last.calls[i].type \in Names(last.evList)
         /\ last.calls[i].optRef = last.opt
         /\ last.opt # Undefined =>
              last.calls[i].options = last.preOpts[last.opt]

C4_Witness ==
  /\ last.op = "add"
  /\ last.opt # Undefined
  /\ Cardinality(Names(last.evList)) = 2
  /\ Len(last.calls) = 2
  /\ last.calls[1].type # last.calls[2].type

\* C5: add(N, events, cb) appends cb at the end of the tracked sequence of
\* (N, E) for each event name E of the set, creating the entry of N and the
\* sequence of E when absent; the entries already there keep their places.
C5_AddAppends ==
  last.op = "add" =>
    /\ last.el \in DOMAIN listeners
    /\ \A E \in Names(last.evList) :
         /\ HasKey(listeners, last.el, E)
         /\ After(E) = Pushed(Before(E), last.cb, Occ(last.evList, E))

C5_Witness ==
  /\ last.op = "add"
  /\ \E E, F \in Names(last.evList) :
       /\ Len(Before(E)) = 1
       /\ Before(E)[1] # last.cb
       /\ After(E) = <<Before(E)[1], last.cb>>
       /\ ~HasKey(last.pre, last.el, F)
       /\ After(F) = <<last.cb>>

\* C6: no duplicate suppression.  An add of a callback makes one native
\* registration and one more tracked entry of it for each event name, also
\* when it is tracked already; a remove of a callback that has at least as
\* many tracked entries as the call names the event leaves that many fewer.
C6_NoDuplicateSuppression ==
  /\ last.op = "add" =>
       \A E \in Names(last.evList) :
         /\ Count(After(E), last.cb)
              = Count(Before(E), last.cb) + Occ(last.evList, E)
         /\ Len(SelectSeq(last.calls,
                          LAMBDA c : IsRegister(c, E, last.cb)))
              = Occ(last.evList, E)
  /\ IsRemoveOf =>
       \A E \in Names(last.evList) :
         Count(Before(E), last.cb) >= Occ(last.evList, E) =>
           Count(After(E), last.cb)
             = Count(Before(E), last.cb) - Occ(last.evList, E)

C6_Witness ==
  /\ IsRemoveOf
  /\ \E E \in Names(last.evList) :
       /\ Count(Before(E), last.cb) = 2
       /\ Count(After(E), last.cb) = 1
       /\ \E l \in last.preReg[last.el] : l.type = E /\ l.cb = last.cb

\* C7: event names are independent.  add(N, "E1 E2", cb) registers and
\* tracks cb under E1 and under E2, and a call that does not name E2
\* (remove with or without a callback, or add) leaves the key and the
\* tracked sequence of (N, E2) as they were and makes no native call for E2.
C7_EventNamesIndependent ==
  /\ last.op = "add" =>
       \A E \in Names(last.evList) :
         /\ Has(After(E), last.cb)
         /\ \E i \in 1..Len(last.calls) :
              IsRegister(last.calls[i], E, last.cb)
  /\ last.op \in {"add", "remove"} =>
       \A E \in EventNames \ Names(last.evList) :
         /\ HasKey(listeners, last.el, E) = HasKey(last.pre, last.el, E)
         /\ After(E) = Before(E)
         /\ CallsFor(E) = <<>>

C7_Witness ==
  /\ IsBulkRemove
  /\ \E E, F \in EventNames :
       /\ Names(last.evList) = {E}
       /\ F # E
       /\ Len(Before(E)) >= 1
       /\ Len(Before(F)) >= 1
       /\ After(F) = Before(F)

\* C8: once(N, events, cb) with the options omitted completes without
\* raising, registers cb natively for each event name with the fire-once
\* flag true, tracks cb and returns N.
C8_OnceWithoutOptions ==
  (last.op = "once" /\ last.opt = Undefined) =>
    /\ ~last.raised
    /\ last.ret = last.el
    /\ \A E \in Names(last.evList) :
         /\ Has(After(E), last.cb)
         /\ \E i \in 1..Len(last.calls) :
              /\ IsRegister(last.calls[i], E, last.cb)
              /\ last.calls[i].options.once = "true"

\* C9: once(N, events, cb, options) does what add does, except that the
\* options handed to the native registration are the caller's options with
\* the fire-once flag true: every other option keeps the caller's value,
\* and the flag is true also when the caller passed it as false.
C9_OnceForcesFlag ==
  (last.op = "once" /\ last.opt # Undefined) =>
    /\ ~last.raised
    /\ last.ret = last.el
    /\ \A E \in EventNames : Len(CallsFor(E)) = Occ(last.evList, E)
    /\ \A E \in Names(last.evList) :
         /\ HasKey(listeners, last.el, E)
         /\ After(E) = Pushed(Before(E), last.cb, Occ(last.evList, E))
    /\ \A i \in 1..Len(last.calls) :
         /\ IsRegister(last.calls[i], last.calls[i].type, last.cb)
         /\ last.calls[i].optRef = last.opt
         /\ last.calls[i].options.once = "true"
         /\ last.calls[i].options.capture = last.preOpts[last.opt].capture

C9_Witness ==
  /\ last.op = "once"
  /\ last.opt # Undefined
  /\ last.preOpts[last.opt] = [capture |-> "false", once |-> "false"]
  /\ Len(last.calls) = 1
  /\ last.calls[1].options = [capture |-> "false", once |-> "true"]

\* C10: on a platform that removes a listener registered with the fire-once
\* flag after its first invocation, after once(N, E, cb) the first dispatch
\* of E on N invokes cb and every later dispatch of E does not.
C10_OnceFiresOnce ==
  last.op = "dispatch" =>
    \A cb \in Callbacks :
      /\ <<last.el, last.evList, cb>> \in last.preWatch.armed =>
           cb \in last.invoked
      /\ <<last.el, last.evList, cb>> \in last.preWatch.spent =>
           cb \notin last.invoked

IsCall == last.op \in {"add", "once", "remove"}

\* C11: add, once and remove each return the node that was passed in, with
\* the callback given or omitted, the options given or omitted, and the node
\* tracked or not.
C11_ReturnsNode == IsCall => last.ret = last.el

\* C12: every event-name key of a node's tracked mapping has a non-empty
\* tracked sequence: no empty placeholder stays behind, neither after the
\* last single-callback removal nor after a remove of a callback on a name
\* that was never tracked.
C12_NoEmptyPlaceholder ==
  \A el \in DOMAIN listeners :
    \A E \in DOMAIN listeners[el] : Len(listeners[el][E]) >= 1

\* C13: after add and remove calls only, every callback the platform holds
\* for (N, E) is in the tracked sequence of (N, E), so that a bulk remove of
\* E leaves no callback natively registered for (N, E).
C13_RegisteredAreTracked ==
  /\ \A el \in Nodes :
       \A l \in registered[el] : Has(SeqOf(listeners, el, l.type), l.cb)
  /\ IsBulkRemove =>
       \A l \in registered[last.el] : l.type \notin Names(last.evList)

IsPrefix(a, b) == Len(a) <= Len(b) /\ SubSeq(b, 1, Len(a)) = a

\* C14: a dispatch never prunes the tracked sequences: a once entry whose
\* listener the platform removed is still tracked at its place, only a
\* remove call takes entries out, and a later bulk remove issues a native
\* unregister call for it.
C14_OnceEntriesNotPruned ==
  /\ last.op = "dispatch" => listeners = last.pre
  /\ last.op \in {"add", "once", "dispatch"} =>
       \A el \in DOMAIN last.pre :
         \A E \in DOMAIN last.pre[el] :
           IsPrefix(last.pre[el][E], SeqOf(listeners, el, E))
  /\ IsBulkRemove =>
       \A E \in Names(last.evList) :
         \A i \in 1..Len(Before(E)) :
           \E j \in 1..Len(last.calls) :
             IsUnregister(last.calls[j], E, Before(E)[i])

C14_Witness ==
  /\ IsBulkRemove
  /\ \E E \in Names(last.evList), cb \in Callbacks :
       /\ <<last.el, E, cb>> \in last.preWatch.spent
       /\ Has(Before(E), cb)
       /\ ~\E l \in last.preReg[last.el] : l.type = E /\ l.cb = cb
       /\ \E j \in 1..Len(last.calls) : IsUnregister(last.calls[j], E, cb)

\* The event names of a string in the order they stand in it.
TokensOf(s) ==
  LET R == Runs(s)
      nth(i) == CHOOSE r \in R : Cardinality({q \in R : q[1] < r[1]}) = i - 1
  IN [i \in 1..Cardinality(R) |-> SubSeq(s, nth(i)[1], nth(i)[2])]

\* C15: add, once and remove process the whitespace-delimited tokens of the
\* string, once each and from left to right; no native call is made and no
\* key is created for an empty event name, also with consecutive, leading
\* or trailing whitespace.
C15_ExactlyTheTokens ==
  (IsCall /\ ~last.raised) =>
    /\ \A i \in 1..Len(last.calls) : last.calls[i].type # <<>>
    /\ \A el \in DOMAIN listeners : <<>> \notin DOMAIN listeners[el]
    /\ (last.op \in {"add", "once"} \/ IsRemoveOf) =>
         [i \in 1..Len(last.calls) |-> last.calls[i].type]
           = TokensOf(last.evList)

\* C16: node entries are created lazily and never destroyed: every add,
\* once or remove call on a node without an entry creates one (remove an
\* empty one), and no call deletes the entry of a node.
C16_NodeEntryCreatedAndKept ==
  /\ IsCall => last.el \in DOMAIN listeners
  /\ DOMAIN last.pre \subseteq DOMAIN listeners
  /\ (last.op = "remove" /\ last.el \notin DOMAIN last.pre
        /\ \A E \in Names(last.evList) : Occ(last.evList, E) = 1) =>
       \A E \in DOMAIN listeners[last.el] : listeners[last.el][E] = <<>>

\* C18: once leaves the caller's options object as it was, so that a later
\* add with the same object registers without the fire-once flag unless the
\* caller set it.
C18_OnceKeepsCallerOptions ==
  /\ last.op = "once" => optObjs = last.preOpts
  /\ (last.op = "add" /\ last.opt # Undefined) =>
       \A i \in 1..Len(last.calls) : last.calls[i].options.once # "true"

\* C17: when the native registration raises for an event name during
\* add(N, events, cb), the failure reaches the caller, cb is appended
\* neither for that name nor for a later one, and the names before it stay
\* registered and tracked.
C17_AddFailureKeepsEarlierNames ==
  (last.op = "add" /\ last.raised) =>
    LET k == Len(last.calls)
        T == TokensOf(last.evList)
        done(E) == Cardinality({i \in 1..(k - 1) : T[i] = E})
    IN /\ k \in 1..Len(T)
       /\ last.ret = Undefined
       /\ IsRegister(last.calls[k], T[k], last.cb)
       /\ \A E \in EventNames :
            After(E) = Pushed(Before(E), last.cb, done(E))
       /\ \A i \in 1..(k - 1) :
            \E l \in registered[last.el] : l.type = T[i] /\ l.cb = last.cb
       /\ \A E \in EventNames :
            done(E) = 0 =>
              {l \in registered[last.el] : l.type = E}
                = {l \in last.preReg[last.el] : l.type = E}

C17_Witness ==
  /\ last.op = "add"
  /\ last.raised
  /\ Len(last.calls) = 2
  /\ \E E, F \in Names(last.evList) :
       /\ E # F
       /\ After(E) = Append(Before(E), last.cb)
       /\ After(F) = Before(F)
       /\ ~Has(After(F), last.cb)
       /\ \E l \in registered[last.el] : l.type = E /\ l.cb = last.cb
       /\ ~\E l \in registered[last.el] : l.type = F /\ l.cb = last.cb

\* C19: nodes are isolated: a call on node N changes neither the entry nor
\* the tracked mapping of another node M and makes no native call on M,
\* also when the same callback and event name are registered on both.
C19_NodesIsolated ==
  IsCall =>
    /\ \A i \in 1..Len(last.calls) : last.calls[i].el = last.el
    /\ \A m \in Nodes \ {last.el} :
         /\ (m \in DOMAIN listeners) = (m \in DOMAIN last.pre)
         /\ m \in DOMAIN listeners => listeners[m] = last.pre[m]
         /\ registered[m] = last.preReg[m]

C19_Witness ==
  /\ IsBulkRemove
  /\ \E m \in Nodes \ {last.el}, E \in Names(last.evList) :
       /\ Len(Before(E)) >= 1
       /\ Has(SeqOf(listeners, m, E), Before(E)[1])
       /\ \E l \in registered[m] : l.type = E /\ l.cb = Before(E)[1]
       /\ Len(last.calls) >= 1

\* The platform listeners of node el that stand for the entry cb tracked
\* under the event name E.
ListenersOf(el, E, cb) == {l \in registered[el] : l.type = E /\ l.cb = cb}

\* C20 as stated: the options of every tracked listener can be read back
\* from the tracked structure: two tracked sequences that are equal stand
\* for listeners registered with the same options.
C20_OptionsReadBack ==
  \A el \in DOMAIN listeners, m \in DOMAIN listeners :
    \A E \in DOMAIN listeners[el], F \in DOMAIN listeners[m] :
      listeners[el][E] = listeners[m][F] =>
        \A i \in 1..Len(listeners[el][E]) :
          \A l \in ListenersOf(el, E, listeners[el][E][i]),
             k \in ListenersOf(m, F, listeners[m][F][i]) : l.once = k.once

\* C20: each tracked entry is the callback alone: nothing but callbacks is
\* ever tracked, what add and once append is the callback itself, and the
\* options (for once: the caller's options with the fire-once flag) appear
\* in the native registration only.
C20_EntriesAreCallbacksOnly ==
  /\ \A el \in DOMAIN listeners : \A E \in DOMAIN listeners[el] :
       \A i \in 1..Len(listeners[el][E]) : listeners[el][E][i] \in Callbacks
  /\ last.op \in {"add", "once"} =>
       \A E \in Names(last.evList) :
         /\ \E n \in 0..Occ(last.evList, E) :
              After(E) = Pushed(Before(E), last.cb, n)
         /\ \A i \in 1..Len(CallsFor(E)) :
              /\ CallsFor(E)[i].cb = last.cb
              /\ CallsFor(E)[i].options = Deref(optObjs, last.opt).value

C20_Witness ==
  /\ last.op = "once"
  /\ ~last.raised
  /\ \E E \in Names(last.evList), m \in Nodes \ {last.el} :
       /\ Len(CallsFor(E)) = 1
       /\ CallsFor(E)[1].options.once = "true"
       /\ After(E) = <<last.cb>>
       /\ SeqOf(listeners, m, E) = After(E)
       /\ \E l \in ListenersOf(last.el, E, last.cb) : l.once
       /\ \E k \in ListenersOf(m, E, last.cb) : ~k.once

====
